---- MODULE Spec2Model ----
(***************************************************************************)
(* static-kit: the recursive HTML import resolver (processHtmlImports of   *)
(* packages/static-kit-core/src/utils/html-imports.ts) and the sprite      *)
(* compiler (generateSvgSprite of plugins/svg-sprite.ts) as state machines,*)
(* with the sprite plugins of a build and of the dev server, the           *)
(* single-level resolver of src/process-html-imports.ts and                *)
(* getInputEntries of utils/file-scanner.ts.                               *)
(*                                                                         *)
(* Representation.                                                         *)
(*  - A path is the sequence of its segments below "/" (the paths handled  *)
(*    here are absolute: the callers pass path.dirname of a resolved page  *)
(*    file, and path.resolve returns absolute paths).                      *)
(*  - An HTML text is a sequence of tokens.  A token is a run of ordinary  *)
(*    text, one import directive (one match of importRegex, so every match *)
(*    has length 1 and its index is the number of tokens before it), or a  *)
(*    diagnostic comment written by the resolver.  Every text token        *)
(*    carries the file and position it was authored at, so that two runs   *)
(*    of text are never confused.                                          *)
(*  - The recursion of the async function is an explicit stack of frames;  *)
(*    only the innermost call runs, the others await it.                   *)
(*  - An icon file is the parsed form of its markup: whether it can be     *)
(*    read and parsed, the root element's attributes and its children.     *)
(*    A sprite is the sequence of its symbols.                             *)
(***************************************************************************)
EXTENDS Integers, Sequences, FiniteSets, TLC

\* Bound: the total number of tokens of all files of the file tree.
MaxTotalLen == 4
\* The same bound for the specification with fairness (liveness checking).
MaxFairTotalLen == 3
\* The same bound for the file tree with a document outside the source root.
MaxWideTotalLen == 3

----------------------------------------------------------------------------
(* The file tree *)

SrcRoot == <<"p", "src">>
PagesDir == SrcRoot \o <<"pages">>
ComponentsDir == SrcRoot \o <<"components">>
NestedDir == ComponentsDir \o <<"src">>

FileA == PagesDir \o <<"a.html">>
FileB == ComponentsDir \o <<"b.html">>
FileC == NestedDir \o <<"c.html">>

Files == {FileA, FileB, FileC}

\* A document outside every directory named "src", and a file in a directory
\* that is literally named "@components" next to it.
DocsDir == <<"p", "docs">>
FileD == DocsDir \o <<"d.html">>
FileE == DocsDir \o <<"@components", "b.html">>

\* The files a caller may expand, when they exist.
PageFiles == Files \cup {FileD, FileE}

\* The directive paths (match[1]) that occur in the files, split at "/".
ImpAliasB == <<"@components", "b.html">>
ImpNestedC == <<"src", "c.html">>
ImpUpA == <<"..", "pages", "a.html">>

ImportPaths == {ImpAliasB, ImpNestedC, ImpUpA}

\* The path of a comment of the directive's form, `<!-- @import: ... -->`,
\* with a character that importRegex's class [\w./@-] does not hold.
ImpBadChar == <<"@components", "b+.html">>

\* What a file holds at one position: text, or a directive with this path.
TextShape == <<"#text">>
Shapes == {TextShape} \cup ImportPaths
WideShapes == Shapes \cup {ImpBadChar}

\* Segment names whose spelling ends with / contains "src".
NamesEndingInSrc == {"src"}
NamesIncludingSrc == {"src"}
\* Segment names with a character outside [\w.@-].
NamesWithBadChar == {"b+.html"}

----------------------------------------------------------------------------
(* Tokens *)

Text(f, i) == [kind |-> "text", raw |-> <<>>, file |-> f, n |-> i]
Directive(p) == [kind |-> "import", raw |-> p, file |-> <<>>, n |-> 0]

MkToken(f, i, s) == IF s = TextShape THEN Text(f, i) ELSE Directive(s)
MkContent(f, shape) == [i \in 1..Len(shape) |-> MkToken(f, i, shape[i])]

\* `<!-- Import Error: Circular import detected for "${match[1]}" File: ${filePath} ... -->`
CircularError(importPath, filePath) ==
    [kind |-> "circular", raw |-> importPath, file |-> filePath, n |-> 0]

\* `<!-- Import Error: Could not find component "${match[1]}" Looked for: ${filePath} ... -->`
ComponentNotFoundError(importPath, filePath) ==
    [kind |-> "missingComponent", raw |-> importPath, file |-> filePath, n |-> 0]

\* Mutant: the diagnostic repeats the directive's path, not the path tried.
FileNotFoundErrorRaw(importPath, filePath) ==
    [kind |-> "missingFile", raw |-> importPath, file |-> importPath, n |-> 0]

\* `<!-- Import Error: Could not find file "${match[1]}" Looked for: ${filePath} ... -->`
FileNotFoundError(importPath, filePath) ==
    [kind |-> "missingFile", raw |-> importPath, file |-> filePath, n |-> 0]

----------------------------------------------------------------------------
(* node:path *)

dirname(p) == IF p = <<>> THEN <<>> ELSE SubSeq(p, 1, Len(p) - 1)

RECURSIVE NormalizeFrom(_, _)
NormalizeFrom(acc, rest) ==
    IF rest = <<>> THEN acc
    ELSE LET s == Head(rest)
         IN  NormalizeFrom(IF s = "." THEN acc
                           ELSE IF s = ".." THEN dirname(acc)
                           ELSE Append(acc, s),
                           Tail(rest))

\* path.resolve(from, to) for an absolute `from` and a relative `to`.
resolve(from, to) == NormalizeFrom(from, to)

\* currentDir.endsWith("src") / currentDir.includes("src") on the path string.
endsWithSrc(p) == p # <<>> /\ p[Len(p)] \in NamesEndingInSrc
includesSrc(p) == \E i \in 1..Len(p) : p[i] \in NamesIncludingSrc

----------------------------------------------------------------------------
(* processHtmlImports: matching and resolution *)

\* ([\w./@-]+) takes the whole path up to the closing `-->`.
allowedPath(p) == p # <<>> /\ \A i \in 1..Len(p) : p[i] \notin NamesWithBadChar

\* Mutant: every token is taken for a directive.
IsImportAny(t) == TRUE

\* Mutant: the path may hold any character.
IsImportAnyPath(t) == t.kind = "import"

\* importRegex matches the token: a comment of the directive's form whose
\* path is made of the allowed characters.
IsImport(t) == t.kind = "import" /\ allowedPath(t.raw)

\* Array.from(html.matchAll(importRegex)): the matches in document order.
RECURSIVE MatchesFrom(_, _)
MatchesFrom(html, p) ==
    IF p > Len(html) THEN <<>>
    ELSE (IF IsImport(html[p])
          THEN <<[index |-> p - 1, len |-> 1, path |-> html[p].raw]>>
          ELSE <<>>) \o MatchesFrom(html, p + 1)

matchAll(html) == MatchesFrom(html, 1)

\* importPath.startsWith("@components/")
startsWithComponents(importPath) ==
    Len(importPath) >= 2 /\ importPath[1] = "@components"

\* The while loop that walks up from dir to a directory ending in "src".
RECURSIVE findSrc(_)
findSrc(currentDir) ==
    IF ~endsWithSrc(currentDir) /\ currentDir # dirname(currentDir)
    THEN findSrc(dirname(currentDir))
    ELSE currentDir

\* Mutant: the alias branch is entered for every "@components/" path.
aliasBranchAlways(importPath, dir) == startsWithComponents(importPath)

\* The alias branch is entered.
aliasBranch(importPath, dir) ==
    /\ startsWithComponents(importPath)
    /\ LET currentDir == findSrc(dir)
       IN  endsWithSrc(currentDir) \/ includesSrc(currentDir)

\* filePath of the alias branch.
aliasFilePath(importPath, dir) ==
    LET currentDir == findSrc(dir)
        srcDir == IF endsWithSrc(currentDir) THEN currentDir
                  ELSE currentDir \o <<"src">>
        rewritten == <<"components">> \o Tail(importPath)
    IN  resolve(srcDir, rewritten)

\* filePath of the standard relative resolution.
relativeFilePath(importPath, dir) == resolve(dir, importPath)

\* Mutant: the matches are processed first to last.
forLoopForward(n, i) == [first |-> 0, cond |-> i < n, next |-> i + 1]

\* for (let i = matches.length - 1; i >= 0; i--)
forLoop(n, i) == [first |-> n - 1, cond |-> i >= 0, next |-> i - 1]

\* html.slice(0, match.index) + replacement + html.slice(match.index + match[0].length)
splice(html, m, replacement) ==
    SubSeq(html, 1, m.index) \o replacement
        \o SubSeq(html, m.index + m.len + 1, Len(html))

\* Mutant: the copy is made but filePath is never added to it.
newProcessedFilesNoAdd(heap, ref, filePath) ==
    [heap |-> Append(heap, heap[ref]), ref |-> Len(heap) + 1]

\* Mutant: no copy; filePath is added to the caller's own Set object.
newProcessedFilesShared(heap, ref, filePath) ==
    [heap |-> [heap EXCEPT ![ref] = @ \cup {filePath}], ref |-> ref]

\* const newProcessedFiles = new Set(processedFiles); newProcessedFiles.add(filePath)
\* Sets are objects: `heap` is the sequence of the Set objects allocated so
\* far and a reference is an index into it.
newProcessedFiles(heap, ref, filePath) ==
    [heap |-> Append(heap, heap[ref] \cup {filePath}), ref |-> Len(heap) + 1]

----------------------------------------------------------------------------
(* State *)

VARIABLES
    files,      \* the file tree: path -> content, for the files that exist
    pc,         \* "idle", "running" (a top-level call is in progress), "done"
    page,       \* the file the caller expands (<<>> before the call)
    stack,      \* the frames of the nested processHtmlImports calls, outermost first
    sets,       \* the Set objects allocated so far (processedFiles references)
    result,     \* what the top-level call returned
    readLog,    \* the paths fs.readFile was called with inside processHtmlImports
    icons,      \* the files below iconsDir: path relative to iconsDir -> content
    iconsDirExists, \* iconsDir is a directory
    sprite,     \* the file at outputPath: <<>> when absent, else <<its symbols>>
    outDir,     \* path.dirname(outputPath) is a directory
    gen,        \* the generateSvgSprite call: where it is, svgFiles, symbols
    console,    \* what the current generateSvgSprite call has logged
    edits,      \* the number of changes made to the icon files so far
    plugin,     \* the svgSpritePlugin: Vite's command, its options, and the
                \* path its build hook called generateSvgSprite with
    handlers,   \* the dev server's generateSvgSprite calls, oldest first:
                \* the one of configureServer and those of handleSpriteChange
    ws,         \* the messages sent with server.ws.send, oldest first
    parked,     \* a second top-level processHtmlImports call, not running now
    legacy,     \* what the resolver of src/process-html-imports.ts returned
    entries     \* what getInputEntries returned

htmlVars == <<files, pc, page, stack, sets, result, readLog>>
spriteVars == <<icons, iconsDirExists, sprite, outDir, gen, console, edits>>
pluginVars == <<plugin, handlers, ws>>
utilVars == <<parked, legacy, entries>>
vars == <<htmlVars, spriteVars, pluginVars, utilVars>>

\* No generateSvgSprite call has been made since the icons last changed.
NoCall == [pc |-> "idle", svgFiles |-> <<>>, i |-> 0, symbols |-> <<>>]

\* No generateSvgSprite call was ever made: no icons, no sprite.
SpriteIdle ==
    /\ icons = <<>>
    /\ iconsDirExists = FALSE
    /\ sprite = <<>>
    /\ outDir = FALSE
    /\ gen = NoCall
    /\ console = <<>>
    /\ edits = 0

\* No processHtmlImports call was ever made: no pages.
HtmlIdle ==
    /\ files = <<>>
    /\ pc = "idle"
    /\ page = <<>>
    /\ stack = <<>>
    /\ sets = <<>>
    /\ result = <<>>
    /\ readLog = <<>>

\* The options svgSpritePlugin takes when none are given.
DefaultOptions ==
    [outputPath |-> <<"public", "images", "sprite.svg">>, publicPath |-> <<"public">>]

\* Vite has not configured the plugin: no command, no server, no build.
PluginIdle ==
    /\ plugin = [command |-> "none", options |-> DefaultOptions, buildOutputPath |-> <<>>]
    /\ handlers = <<>>
    /\ ws = <<>>

\* No call is parked, and neither the legacy resolver nor getInputEntries
\* has been called.
UtilIdle ==
    /\ parked = <<>>
    /\ legacy = <<>>
    /\ entries = <<>>

\* One activation of processHtmlImports(html, dir, processedFiles); `file` is
\* the file whose content it was called with.
Frame(html, dir, ref, file) ==
    LET matches == matchAll(html)
    IN  [html |-> html, dir |-> dir, processedFiles |-> ref,
         matches |-> matches, i |-> forLoop(Len(matches), 0).first,
         file |-> file]

Top == stack[Len(stack)]
match == Top.matches[Top.i + 1]

\* The innermost call is at a directive of its loop.
AtMatch ==
    /\ pc = "running"
    /\ forLoop(Len(Top.matches), Top.i).cond

\* Mutant: a file counts as visited once any call of the session has read it.
hasInAnySet(ref, filePath) == \E r \in 1..Len(sets) : filePath \in sets[r]

\* Mutant: the set is asked for something it never holds.
hasNever(ref, filePath) == FALSE

\* Mutant: the document the caller expands counts as visited from the start.
hasOrIsPage(ref, filePath) == filePath \in sets[ref] \/ filePath = page

\* processedFiles.has(filePath)
has(ref, filePath) == filePath \in sets[ref]

\* fs.readFile(filePath, "utf8") succeeds.
readable(filePath) == filePath \in DOMAIN files

\* The loop body ends (continue / end of body) with html reassigned.
Continue(fr, html) ==
    [fr EXCEPT !.html = html, !.i = forLoop(Len(fr.matches), fr.i).next]

SetTop(fr) == [stack EXCEPT ![Len(stack)] = fr]

\* Mutant: after a diagnostic the loop is left instead of continued.
diagnoseAndStop(fr, m, errorMessage) ==
    [fr EXCEPT !.html = splice(fr.html, m, <<errorMessage>>), !.i = -1]

\* html = html.slice(0, match.index) + errorMessage + html.slice(...); continue
diagnose(fr, m, errorMessage) ==
    Continue(fr, splice(fr.html, m, <<errorMessage>>))

\* Mutant: the imported content is expanded in the importing document's dir.
recursiveCallSameDir(filePath, dir, ref) ==
    Frame(files[filePath], dir, ref, filePath)

\* processHtmlImports(fileContent, path.dirname(filePath), newProcessedFiles)
\* with fileContent = await fs.readFile(filePath, "utf8"); dir is the
\* caller's own dir.
recursiveCall(filePath, dir, ref) ==
    Frame(files[filePath], dirname(filePath), ref, filePath)

\* The state before the caller's call, over every file tree of at most
\* maxLen tokens.
InitWith(maxLen) ==
    /\ \E la \in 0..maxLen, lb \in 0..maxLen, lc \in 0..maxLen :
         /\ la + lb + lc <= maxLen
         /\ \E sa \in [1..la -> Shapes], sb \in [1..lb -> Shapes],
               sc \in [1..lc -> Shapes] :
              files = (FileA :> MkContent(FileA, sa))
                        @@ (FileB :> MkContent(FileB, sb))
                        @@ (FileC :> MkContent(FileC, sc))
    /\ pc = "idle"
    /\ page = <<>>
    /\ stack = <<>>
    /\ sets = <<>>
    /\ result = <<>>
    /\ readLog = <<>>
    /\ SpriteIdle
    /\ PluginIdle
    /\ UtilIdle

Init == InitWith(MaxTotalLen)

\* The same over a file tree of a page, a component (or none), a document
\* outside the source root and, or not, a file below a directory named
\* "@components" next to that document; the texts may hold the
\* unrecognized comment.
InitWide ==
    /\ \E la \in 0..MaxWideTotalLen, lb \in 0..MaxWideTotalLen,
          ld \in 0..MaxWideTotalLen :
         /\ la + lb + ld <= MaxWideTotalLen
         /\ \E sa \in [1..la -> WideShapes], sb \in [1..lb -> WideShapes],
               sd \in [1..ld -> WideShapes], e \in BOOLEAN, b \in BOOLEAN :
              /\ b \/ lb = 0
              /\ files = (FileA :> MkContent(FileA, sa))
                        @@ (IF b THEN FileB :> MkContent(FileB, sb) ELSE <<>>)
                        @@ (FileD :> MkContent(FileD, sd))
                        @@ (IF e THEN FileE :> MkContent(FileE, <<TextShape>>)
                            ELSE <<>>)
    /\ pc = "idle"
    /\ page = <<>>
    /\ stack = <<>>
    /\ sets = <<>>
    /\ result = <<>>
    /\ readLog = <<>>
    /\ SpriteIdle
    /\ PluginIdle
    /\ UtilIdle

----------------------------------------------------------------------------
(* Actions *)

\* The caller: rawPageContent = readFile(pageFile);
\* processHtmlImports(rawPageContent, path.dirname(pageFile)) with the
\* default processedFiles = new Set().
Call(pageFile) ==
    /\ pc = "idle"
    /\ readable(pageFile)
    /\ pc' = "running"
    /\ page' = pageFile
    /\ sets' = Append(sets, {})
    /\ stack' = <<Frame(files[pageFile], dirname(pageFile), Len(sets) + 1, pageFile)>>
    /\ UNCHANGED <<files, result, readLog>>
    /\ UNCHANGED <<spriteVars, pluginVars, utilVars>>

\* Alias branch, processedFiles.has(filePath): circular-import diagnostic.
AliasCircular ==
    /\ AtMatch
    /\ aliasBranch(match.path, Top.dir)
    /\ LET filePath == aliasFilePath(match.path, Top.dir)
       IN  /\ has(Top.processedFiles, filePath)
           /\ stack' = SetTop(diagnose(Top, match, CircularError(match.path, filePath)))
    /\ UNCHANGED <<files, pc, page, sets, result, readLog>>
    /\ UNCHANGED <<spriteVars, pluginVars, utilVars>>

\* Alias branch, readFile throws: caught, component-not-found diagnostic.
AliasNotFound ==
    /\ AtMatch
    /\ aliasBranch(match.path, Top.dir)
    /\ LET filePath == aliasFilePath(match.path, Top.dir)
       IN  /\ ~has(Top.processedFiles, filePath)
           /\ ~readable(filePath)
           /\ readLog' = Append(readLog, filePath)
           /\ stack' = SetTop(diagnose(Top, match, ComponentNotFoundError(match.path, filePath)))
    /\ UNCHANGED <<files, pc, page, sets, result>>
    /\ UNCHANGED <<spriteVars, pluginVars, utilVars>>

\* Alias branch, the file is read: the recursive call starts.
AliasImport ==
    /\ AtMatch
    /\ aliasBranch(match.path, Top.dir)
    /\ LET filePath == aliasFilePath(match.path, Top.dir)
           new == newProcessedFiles(sets, Top.processedFiles, filePath)
       IN  /\ ~has(Top.processedFiles, filePath)
           /\ readable(filePath)
           /\ readLog' = Append(readLog, filePath)
           /\ sets' = new.heap
           /\ stack' = Append(stack, recursiveCall(filePath, Top.dir, new.ref))
    /\ UNCHANGED <<files, pc, page, result>>
    /\ UNCHANGED <<spriteVars, pluginVars, utilVars>>

\* Relative branch, processedFiles.has(filePath): circular-import diagnostic.
RelativeCircular ==
    /\ AtMatch
    /\ ~aliasBranch(match.path, Top.dir)
    /\ LET filePath == relativeFilePath(match.path, Top.dir)
       IN  /\ has(Top.processedFiles, filePath)
           /\ stack' = SetTop(diagnose(Top, match, CircularError(match.path, filePath)))
    /\ UNCHANGED <<files, pc, page, sets, result, readLog>>
    /\ UNCHANGED <<spriteVars, pluginVars, utilVars>>

\* Relative branch, readFile throws: caught, file-not-found diagnostic.
RelativeNotFound ==
    /\ AtMatch
    /\ ~aliasBranch(match.path, Top.dir)
    /\ LET filePath == relativeFilePath(match.path, Top.dir)
       IN  /\ ~has(Top.processedFiles, filePath)
           /\ ~readable(filePath)
           /\ readLog' = Append(readLog, filePath)
           /\ stack' = SetTop(diagnose(Top, match, FileNotFoundError(match.path, filePath)))
    /\ UNCHANGED <<files, pc, page, sets, result>>
    /\ UNCHANGED <<spriteVars, pluginVars, utilVars>>

\* Relative branch, the file is read: the recursive call starts.
RelativeImport ==
    /\ AtMatch
    /\ ~aliasBranch(match.path, Top.dir)
    /\ LET filePath == relativeFilePath(match.path, Top.dir)
           new == newProcessedFiles(sets, Top.processedFiles, filePath)
       IN  /\ ~has(Top.processedFiles, filePath)
           /\ readable(filePath)
           /\ readLog' = Append(readLog, filePath)
           /\ sets' = new.heap
           /\ stack' = Append(stack, recursiveCall(filePath, Top.dir, new.ref))
    /\ UNCHANGED <<files, pc, page, result>>
    /\ UNCHANGED <<spriteVars, pluginVars, utilVars>>

\* A recursive call returns its html; the awaiting caller splices it in as
\* processedFileContent at its current match and goes on with its loop.
Return ==
    /\ pc = "running"
    /\ Len(stack) > 1
    /\ ~forLoop(Len(Top.matches), Top.i).cond
    /\ LET processedFileContent == Top.html
           caller == stack[Len(stack) - 1]
           m == caller.matches[caller.i + 1]
       IN  stack' = Append(SubSeq(stack, 1, Len(stack) - 2),
                  Continue(caller, splice(caller.html, m, processedFileContent)))
    /\ UNCHANGED <<files, pc, page, sets, result, readLog>>
    /\ UNCHANGED <<spriteVars, pluginVars, utilVars>>

\* The top-level call returns html to the caller.
Finish ==
    /\ pc = "running"
    /\ Len(stack) = 1
    /\ ~forLoop(Len(Top.matches), Top.i).cond
    /\ result' = Top.html
    /\ pc' = "done"
    /\ stack' = <<>>
    /\ UNCHANGED <<files, page, sets, readLog>>
    /\ UNCHANGED <<spriteVars, pluginVars, utilVars>>

Next ==
    \/ \E pageFile \in PageFiles : Call(pageFile)
    \/ AliasCircular
    \/ AliasNotFound
    \/ AliasImport
    \/ RelativeCircular
    \/ RelativeNotFound
    \/ RelativeImport
    \/ Return
    \/ Finish

Spec == Init /\ [][Next]_vars

\* The same resolver over the file trees of InitWide.
WideSpec == InitWide /\ [][Next]_vars

\* The event loop runs every continuation that is ready.
FairSpec == InitWith(MaxFairTotalLen) /\ [][Next]_vars /\ WF_vars(Next)

----------------------------------------------------------------------------
(* The sprite compiler: generateSvgSprite of plugins/svg-sprite.ts *)

\* Bound: the number of .svg files below the icons root.
MaxIcons == 3
\* The same bound for the icons root whose files are changed between calls.
MaxLifecycleIcons == 1
\* Bound: the number of changes (add, change, unlink) made to the icon files.
MaxEdits == 1

\* Paths below iconsDir, as scanDirectory returns them (relative to iconsDir).
IconArrow == <<"arrow.svg">>
IconUiArrow == <<"ui", "arrow.svg">>
IconStar == <<"star.svg">>
IconUiStar == <<"ui", "star.svg">>
SvgPaths == {IconArrow, IconUiArrow, IconStar, IconUiStar}

\* A file below iconsDir that holds a vector image but is no .svg file.
IconBackup == <<"arrow.svg.bak">>

\* File names whose spelling ends with ".svg" (the glob **/*.svg).
NamesEndingInSvg == {"arrow.svg", "star.svg"}

\* path.basename(file, ".svg"): the last segment without the extension.
basename(file) ==
    LET name == file[Len(file)]
    IN  CASE name = "arrow.svg" -> "arrow"
          [] name = "star.svg" -> "star"
          [] OTHER -> name

\* SVG markup: the root element's attributes and its child elements.
Attr(name, value) == <<name, value>>
Element(tag, attrs) == [tag |-> tag, attrs |-> attrs]
Svg(attrs, children) ==
    [readable |-> TRUE, wellFormed |-> TRUE, attrs |-> attrs, children |-> children]

PathEl == Element("path", <<Attr("d", "M0 0h24v24H0z"), Attr("data-name", "Layer 1")>>)
CircleEl == Element("circle", <<Attr("r", "10")>>)
MarkerEl == Element("marker", <<Attr("viewBox", "0 0 10 10")>>)

\* The contents an icon file may have.
\* <svg viewBox="0 0 24 24" data-name="Layer 1"><path .../></svg>
SrcBoxed == Svg(<<Attr("viewBox", "0 0 24 24"), Attr("data-name", "Layer 1")>>, <<PathEl>>)
\* <svg width="24"><circle .../></svg>: no viewBox anywhere
SrcPlain == Svg(<<Attr("width", "24")>>, <<CircleEl>>)
\* <svg width="24"><marker viewBox="0 0 10 10"/><path .../></svg>: a viewBox
\* on an inner element only
SrcMarker == Svg(<<Attr("width", "24")>>, <<MarkerEl, PathEl>>)
\* <svg viewBox="0 0 24 24"></svg>: a root element without content
SrcEmpty == Svg(<<Attr("viewBox", "0 0 24 24")>>, <<>>)
\* Text that is no well-formed XML: the optimizer throws.
SrcMalformed ==
    [readable |-> TRUE, wellFormed |-> FALSE, attrs |-> <<>>, children |-> <<>>]
\* A file that cannot be read (EACCES): fs.readFile throws.
SrcUnreadable ==
    [readable |-> FALSE, wellFormed |-> FALSE, attrs |-> <<>>, children |-> <<>>]

IconSources == {SrcBoxed, SrcPlain, SrcMarker, SrcEmpty, SrcMalformed, SrcUnreadable}

\* What outputPath holds from a call made when other icons existed.
StaleSprite == <<[id |-> "old", viewBox |-> <<>>, inner |-> <<>>]>>

\* The orders in which a set of paths can be listed.
Orders(S) ==
    {f \in [1..Cardinality(S) -> S] : \A j, k \in 1..Cardinality(S) : j # k => f[j] # f[k]}

\* Mutant: every file below dir is returned, whatever its extension.
scanDirectoryAll(dirExists, tree) ==
    IF dirExists THEN Orders(DOMAIN tree) ELSE {<<>>}

\* scanDirectory(iconsDir, [".svg"]): what fast-glob may return for **/*.svg
\* (only files, node_modules ignored), in an order it does not promise; []
\* when the directory does not exist.
scanDirectory(dirExists, tree) ==
    IF dirExists
    THEN Orders({file \in DOMAIN tree :
                    /\ file[Len(file)] \in NamesEndingInSvg
                    /\ file[1] # "node_modules"})
    ELSE {<<>>}

\* fs.readFile(path.join(iconsDir, file), "utf-8") returns.
canRead(tree, file) == file \in DOMAIN tree /\ tree[file].readable

\* The removeAttrs plugin with attrs: "data-name".
removeAttrs(attrs) == SelectSeq(attrs, LAMBDA a : a[1] # "data-name")

\* optimize(svgContent, {plugins: [removeAttrs]}): throws on text it cannot
\* parse; result.data is the markup without data-name attributes.
optimize(svgContent) ==
    [threw |-> ~svgContent.wellFormed,
     data |-> [attrs |-> removeAttrs(svgContent.attrs),
               children |-> [k \in 1..Len(svgContent.children) |->
                               Element(svgContent.children[k].tag,
                                       removeAttrs(svgContent.children[k].attrs))]]]

\* optimizedSvg.match(/<svg[^>]*>([\s\S]*?)<\/svg>/): the optimizer writes a
\* root element without children as <svg .../>, which has no closing tag.
svgMatch(optimizedSvg) ==
    [matched |-> optimizedSvg.children # <<>>, inner |-> optimizedSvg.children]

\* The attributes of the markup in the order of the text: the root's, then
\* those of the elements inside it.
RECURSIVE attrsOf(_)
attrsOf(children) ==
    IF children = <<>> THEN <<>>
    ELSE Head(children).attrs \o attrsOf(Tail(children))

\* optimizedSvg.match(/viewBox="([^"]*)"/): the first viewBox="..." of the
\* text; <<>> for no match, <<value>> for a match.
viewBoxMatch(optimizedSvg) ==
    LET hits == SelectSeq(optimizedSvg.attrs \o attrsOf(optimizedSvg.children),
                          LAMBDA a : a[1] = "viewBox")
    IN  IF hits = <<>> THEN <<>> ELSE <<hits[1][2]>>

\* `<symbol id="${iconName}"${viewBox}>${innerContent}</symbol>`
symbol(file, optimizedSvg) ==
    [id |-> basename(file),
     viewBox |-> viewBoxMatch(optimizedSvg),
     inner |-> svgMatch(optimizedSvg).inner]

\* Mutant: the new symbol is put before the ones collected so far.
unshift(symbols, s) == <<s>> \o symbols

\* symbols.push(symbol)
push(symbols, s) == Append(symbols, s)

\* console.warn(`Failed to process ${file}:`, error)
Warn(file) == [level |-> "warn", file |-> file, n |-> 0]
\* console.log(`Generated sprite with ${symbols.length} icons at ${outputPath}`)
Log(n) == [level |-> "log", file |-> <<>>, n |-> n]

\* Mutant: the error of one file ends the call.
rethrow(g) == [g EXCEPT !.pc = "returned"]

\* The catch block is left: the loop goes on with the next file.
caught(g) == [g EXCEPT !.i = @ + 1]

\* The icon files and the output before a call, over every icons root with
\* at most maxIcons .svg files; outputs says whether outputPath may hold a
\* sprite of an earlier session (TRUE) or be absent (FALSE).
IconTree(maxIcons, outputs) ==
    /\ \E S \in SUBSET SvgPaths :
         /\ Cardinality(S) <= maxIcons
         /\ \E content \in [S -> IconSources], e \in BOOLEAN :
              /\ iconsDirExists = (e \/ S # {})
              /\ icons = IF iconsDirExists
                         THEN content @@ (IconBackup :> SrcBoxed)
                         ELSE <<>>
    /\ \E old \in outputs :
         /\ sprite = IF old THEN <<StaleSprite>> ELSE <<>>
         /\ outDir = old
    /\ gen = NoCall
    /\ console = <<>>
    /\ edits = 0

\* The same when nothing else of the toolkit has run.
SpriteInitWith(maxIcons, outputs) ==
    /\ IconTree(maxIcons, outputs)
    /\ HtmlIdle
    /\ PluginIdle
    /\ UtilIdle

SpriteInit == SpriteInitWith(MaxIcons, BOOLEAN)

\* generateSvgSprite(iconsDir, outputPath) is called.
Generate ==
    /\ gen.pc = "idle"
    /\ gen' = [pc |-> "scan", svgFiles |-> <<>>, i |-> 0, symbols |-> <<>>]
    /\ console' = <<>>
    /\ UNCHANGED <<icons, iconsDirExists, sprite, outDir, edits>>
    /\ UNCHANGED <<htmlVars, pluginVars, utilVars>>

\* svgFiles = await scanDirectory(...); if (svgFiles.length === 0) return
Scan ==
    /\ gen.pc = "scan"
    /\ \E svgFiles \in scanDirectory(iconsDirExists, icons) :
         gen' = IF Len(svgFiles) = 0
                THEN [gen EXCEPT !.pc = "returned"]
                ELSE [pc |-> "loop", svgFiles |-> svgFiles, i |-> 1, symbols |-> <<>>]
    /\ UNCHANGED <<icons, iconsDirExists, sprite, outDir, console, edits>>
    /\ UNCHANGED <<htmlVars, pluginVars, utilVars>>

\* The loop is at a file.
AtFile == gen.pc = "loop" /\ gen.i <= Len(gen.svgFiles)
file == gen.svgFiles[gen.i]

\* fs.readFile throws: caught, warning.
ReadFails ==
    /\ AtFile
    /\ ~canRead(icons, file)
    /\ gen' = caught(gen)
    /\ console' = Append(console, Warn(file))
    /\ UNCHANGED <<icons, iconsDirExists, sprite, outDir, edits>>
    /\ UNCHANGED <<htmlVars, pluginVars, utilVars>>

\* optimize throws: caught, warning.
OptimizeFails ==
    /\ AtFile
    /\ canRead(icons, file)
    /\ optimize(icons[file]).threw
    /\ gen' = caught(gen)
    /\ console' = Append(console, Warn(file))
    /\ UNCHANGED <<icons, iconsDirExists, sprite, outDir, edits>>
    /\ UNCHANGED <<htmlVars, pluginVars, utilVars>>

\* svgMatch is null: the if is skipped, nothing is pushed or logged.
NoRootMatch ==
    /\ AtFile
    /\ canRead(icons, file)
    /\ ~optimize(icons[file]).threw
    /\ ~svgMatch(optimize(icons[file]).data).matched
    /\ gen' = [gen EXCEPT !.i = @ + 1]
    /\ UNCHANGED <<icons, iconsDirExists, sprite, outDir, console, edits>>
    /\ UNCHANGED <<htmlVars, pluginVars, utilVars>>

\* The symbol of the file is built and pushed.
PushSymbol ==
    /\ AtFile
    /\ canRead(icons, file)
    /\ ~optimize(icons[file]).threw
    /\ svgMatch(optimize(icons[file]).data).matched
    /\ gen' = [gen EXCEPT !.i = @ + 1,
                          !.symbols = push(@, symbol(file, optimize(icons[file]).data))]
    /\ UNCHANGED <<icons, iconsDirExists, sprite, outDir, console, edits>>
    /\ UNCHANGED <<htmlVars, pluginVars, utilVars>>

\* The loop is over.
LoopDone == gen.pc = "loop" /\ gen.i > Len(gen.svgFiles)

\* symbols.length > 0 is false: the call returns without writing.
ReturnNoSymbols ==
    /\ LoopDone
    /\ ~(Len(gen.symbols) > 0)
    /\ gen' = [gen EXCEPT !.pc = "returned"]
    /\ UNCHANGED <<icons, iconsDirExists, sprite, outDir, console, edits>>
    /\ UNCHANGED <<htmlVars, pluginVars, utilVars>>

\* await fs.mkdir(path.dirname(outputPath), { recursive: true })
Mkdir ==
    /\ LoopDone
    /\ Len(gen.symbols) > 0
    /\ outDir' = TRUE
    /\ gen' = [gen EXCEPT !.pc = "write"]
    /\ UNCHANGED <<icons, iconsDirExists, sprite, console, edits>>
    /\ UNCHANGED <<htmlVars, pluginVars, utilVars>>

\* await fs.writeFile(outputPath, sprite); console.log(...)
WriteFile ==
    /\ gen.pc = "write"
    /\ sprite' = <<gen.symbols>>
    /\ console' = Append(console, Log(Len(gen.symbols)))
    /\ gen' = [gen EXCEPT !.pc = "returned"]
    /\ UNCHANGED <<icons, iconsDirExists, outDir, edits>>
    /\ UNCHANGED <<htmlVars, pluginVars, utilVars>>

\* Between two calls an icon file is added or changed; the call that
\* follows is a new one.
WriteIcon(path, content) ==
    /\ gen.pc \in {"idle", "returned"}
    /\ edits < MaxEdits
    /\ edits' = edits + 1
    /\ iconsDirExists' = TRUE
    /\ icons' = (path :> content)
                  @@ (IF iconsDirExists THEN icons ELSE (IconBackup :> SrcBoxed))
    /\ gen' = NoCall
    /\ UNCHANGED <<sprite, outDir, console>>
    /\ UNCHANGED <<htmlVars, pluginVars, utilVars>>

\* Between two calls an icon file is removed.
UnlinkIcon(path) ==
    /\ gen.pc \in {"idle", "returned"}
    /\ edits < MaxEdits
    /\ path \in DOMAIN icons
    /\ edits' = edits + 1
    /\ icons' = [q \in DOMAIN icons \ {path} |-> icons[q]]
    /\ gen' = NoCall
    /\ UNCHANGED <<iconsDirExists, sprite, outDir, console>>
    /\ UNCHANGED <<htmlVars, pluginVars, utilVars>>

SpriteNext ==
    \/ Generate
    \/ Scan
    \/ ReadFails
    \/ OptimizeFails
    \/ NoRootMatch
    \/ PushSymbol
    \/ ReturnNoSymbols
    \/ Mkdir
    \/ WriteFile

LifecycleNext ==
    \/ SpriteNext
    \/ \E path \in SvgPaths, content \in IconSources : WriteIcon(path, content)
    \/ \E path \in SvgPaths : UnlinkIcon(path)

\* Calls of generateSvgSprite on an icons root that does not change.
SpriteSpec == SpriteInit /\ [][SpriteNext]_vars

\* Calls of generateSvgSprite in a fresh project (no output yet), with
\* changes of the icon files between them.
LifecycleSpec == SpriteInitWith(MaxLifecycleIcons, {FALSE}) /\ [][LifecycleNext]_vars

(* The build plugin: svg-sprite-build, configured by createStaticKitConfig *)

\* Bound: the number of .svg files below the icons root of a build.
MaxBuildIcons == 2

\* config.build.base as staticKitConfig gives it: nothing, or a directory
\* path (its segments) written with or without the closing "/".
NoBase == <<>>
Base(segments, slash) == [segments |-> segments, slash |-> slash]
BaseInputs ==
    {NoBase, Base(<<"public">>, FALSE), Base(<<"assets">>, TRUE),
     Base(<<"static", "public">>, TRUE)}

\* normalizeBase(input): "public/" for no input, else the input with a
\* closing "/"; the result is the sequence of the directories it names.
normalizeBase(input) ==
    IF input = NoBase THEN <<"public">> ELSE input.segments

\* Directory names whose spelling ends with "public", so that the name and
\* the "/" after it hold the text "public/".
NamesEndingInPublic == {"public"}

\* The position of the first "public/" in a path: the first segment that
\* ends with "public" and is not the last one; 0 when there is none.
RECURSIVE indexOfPublic(_, _)
indexOfPublic(p, k) ==
    IF k >= Len(p) THEN 0
    ELSE IF p[k] \in NamesEndingInPublic THEN k
    ELSE indexOfPublic(p, k + 1)

\* outputPath.replace("public/", `dist/${publicPath}`): the first
\* occurrence of "public/" is replaced, the rest of the path is kept.
replacePublic(p, publicPath) ==
    LET k == indexOfPublic(p, 1)
    IN  IF k = 0 THEN p
        ELSE SubSeq(p, 1, k - 1) \o <<"dist">> \o publicPath \o SubSeq(p, k + 1, Len(p))

\* createStaticKitConfig, command "build": svgSpritePlugin is given
\* outputPath `dist/${normalizedBase}images/sprite.svg` and publicPath
\* normalizedBase.
CreateBuildConfig(input) ==
    /\ plugin.command = "none"
    /\ plugin' = [command |-> "build",
                  options |-> [outputPath |-> <<"dist">> \o normalizeBase(input)
                                                \o <<"images", "sprite.svg">>,
                               publicPath |-> normalizeBase(input)],
                  buildOutputPath |-> <<>>]
    /\ UNCHANGED <<handlers, ws>>
    /\ UNCHANGED <<htmlVars, spriteVars, utilVars>>

\* buildStart(): buildOutputPath is computed and generateSvgSprite is
\* called with it; the hook returns the call's promise.
BuildStart ==
    /\ plugin.command = "build"
    /\ plugin.buildOutputPath = <<>>
    /\ gen.pc = "idle"
    /\ plugin' = [plugin EXCEPT !.buildOutputPath =
                      replacePublic(plugin.options.outputPath, plugin.options.publicPath)]
    /\ gen' = [pc |-> "scan", svgFiles |-> <<>>, i |-> 0, symbols |-> <<>>]
    /\ console' = <<>>
    /\ UNCHANGED <<icons, iconsDirExists, sprite, outDir, edits>>
    /\ UNCHANGED <<handlers, ws>>
    /\ UNCHANGED <<htmlVars, utilVars>>

BuildNext ==
    \/ \E input \in BaseInputs : CreateBuildConfig(input)
    \/ BuildStart
    \/ Scan
    \/ ReadFails
    \/ OptimizeFails
    \/ NoRootMatch
    \/ PushSymbol
    \/ ReturnNoSymbols
    \/ Mkdir
    \/ WriteFile

\* A production build of a project that has no dist/ yet: the sprite
\* variable is the file at buildOutputPath.
BuildSpec == SpriteInitWith(MaxBuildIcons, {FALSE}) /\ [][BuildNext]_vars

(* The dev plugin: svg-sprite-dev, its watcher and handleSpriteChange *)

\* Bound: the number of .svg files below the icons root when the server starts.
MaxWatchIcons == 1
\* Bound: the number of watcher events during a session of the dev server.
MaxEvents == 2
\* The same bounds for the sessions in which every call is run to its end.
MaxFairWatchIcons == 1
MaxFairEvents == 1

\* iconsDir below the project root, and the paths the watcher reports.
IconsRoot == SrcRoot \o <<"icons">>
\* An icon kept next to the icons root: src/icons-old/arrow.svg.
OldIcon == SrcRoot \o <<"icons-old", "arrow.svg">>
\* The sprite in the public directory: public/images/sprite.svg.
SpriteFile == <<"p">> \o DefaultOptions.outputPath
\* The files that are watched and are no .svg file below the icons root.
OtherWatched == {IconsRoot \o IconBackup, OldIcon, SpriteFile, FileA}

\* The icon files that change while the server runs, and what is written.
WatchedIcons == {IconArrow, IconUiArrow}
WatchedSources == {SrcBoxed, SrcPlain, SrcUnreadable}

\* Directory names whose spelling starts with "icons", so that "src/" and
\* the name hold the text "src/icons".
NamesStartingWithIcons == {"icons", "icons-old"}
\* File names whose spelling ends with ".svg".
NamesWithSvgSuffix == NamesEndingInSvg \cup {"sprite.svg"}

\* file.includes(iconsDir) for iconsDir = "src/icons".
includesIconsDir(f) ==
    \E k \in 1..(Len(f) - 1) :
        f[k] \in NamesEndingInSrc /\ f[k + 1] \in NamesStartingWithIcons

\* file.endsWith(".svg")
endsWithSvg(f) == f[Len(f)] \in NamesWithSvgSuffix

\* file.includes(iconsDir) && file.endsWith(".svg")
filter(f) == includesIconsDir(f) /\ endsWithSvg(f)

\* A call of generateSvgSprite by the dev plugin, right after the call:
\* scanDirectory is awaited.  type says who called: "start" is
\* configureServer, the others are the watcher events.
Called(type, f) ==
    [type |-> type, file |-> f, pc |-> "scan", svgFiles |-> <<>>, i |-> 0, symbols |-> <<>>]

\* handleSpriteChange(file) of an event that the filter rejects.
Skipped(type, f) ==
    [type |-> type, file |-> f, pc |-> "skipped", svgFiles |-> <<>>, i |-> 0, symbols |-> <<>>]

\* handleSpriteChange(file), up to its await.
handleSpriteChange(type, f) ==
    IF filter(f) THEN Called(type, f) ELSE Skipped(type, f)

\* server.ws.send({type: "custom", event: "svg-sprite-updated", ...}) by the
\* handler of the h-th call.
Updated(h) == [type |-> "custom", event |-> "svg-sprite-updated", handler |-> h]

\* createStaticKitConfig, command "serve": svgSpritePlugin is given
\* outputPath `${publicDir}/images/sprite.svg`.
CreateServeConfig(input) ==
    /\ plugin.command = "none"
    /\ plugin' = [command |-> "serve",
                  options |-> [outputPath |-> <<"public", "images", "sprite.svg">>,
                               publicPath |-> normalizeBase(input)],
                  buildOutputPath |-> <<>>]
    /\ UNCHANGED <<handlers, ws>>
    /\ UNCHANGED <<htmlVars, spriteVars, utilVars>>

\* configureServer(server): generateSvgSprite is called and not awaited, the
\* handlers are registered.
ConfigureServer ==
    /\ plugin.command = "serve"
    /\ handlers = <<>>
    /\ handlers' = <<Called("start", <<>>)>>
    /\ UNCHANGED <<plugin, ws>>
    /\ UNCHANGED <<htmlVars, spriteVars, utilVars>>

\* The server runs and the watcher may report another event, of at most
\* maxEvents.
Watching(maxEvents) == handlers # <<>> /\ Len(handlers) < maxEvents + 1

\* An icon file is added or changed (or written again with the text it
\* has); the watcher calls handleSpriteChange.
WatchWrite(maxEvents, path, content) ==
    /\ Watching(maxEvents)
    /\ handlers' = Append(handlers,
                          handleSpriteChange(IF path \in DOMAIN icons THEN "change" ELSE "add",
                                             IconsRoot \o path))
    /\ iconsDirExists' = TRUE
    /\ icons' = (path :> content)
                  @@ (IF iconsDirExists THEN icons ELSE (IconBackup :> SrcBoxed))
    /\ edits' = IF icons' = icons THEN edits ELSE edits + 1
    /\ UNCHANGED <<sprite, outDir, gen, console>>
    /\ UNCHANGED <<plugin, ws>>
    /\ UNCHANGED <<htmlVars, utilVars>>

\* An icon file is removed; the watcher calls handleSpriteChange.
WatchUnlink(maxEvents, path) ==
    /\ Watching(maxEvents)
    /\ path \in DOMAIN icons
    /\ handlers' = Append(handlers, handleSpriteChange("unlink", IconsRoot \o path))
    /\ icons' = [q \in DOMAIN icons \ {path} |-> icons[q]]
    /\ edits' = edits + 1
    /\ UNCHANGED <<iconsDirExists, sprite, outDir, gen, console>>
    /\ UNCHANGED <<plugin, ws>>
    /\ UNCHANGED <<htmlVars, utilVars>>

\* Another watched file changes; the watcher calls handleSpriteChange.
WatchOther(maxEvents, f) ==
    /\ Watching(maxEvents)
    /\ handlers' = Append(handlers, handleSpriteChange("change", f))
    /\ UNCHANGED <<plugin, ws>>
    /\ UNCHANGED <<htmlVars, spriteVars, utilVars>>

\* The h-th call: svgFiles = await scanDirectory(...); return when empty.
HandlerScan(h) ==
    /\ h \in DOMAIN handlers
    /\ handlers[h].pc = "scan"
    /\ \E svgFiles \in scanDirectory(iconsDirExists, icons) :
         handlers' = [handlers EXCEPT ![h] =
                        IF Len(svgFiles) = 0
                        THEN [@ EXCEPT !.pc = "returned"]
                        ELSE [@ EXCEPT !.pc = "loop", !.svgFiles = svgFiles, !.i = 1]]
    /\ UNCHANGED <<plugin, ws>>
    /\ UNCHANGED <<htmlVars, spriteVars, utilVars>>

\* Mutant: one list, the one of the oldest call, is used by every call.
sharedSymbols(calls, h) == calls[1].symbols

\* const symbols: string[] = []: the list of the h-th call, made in the call.
localSymbols(calls, h) == calls[h].symbols

\* One pass of the loop body of a call: the file is read, optimized and
\* matched; its symbol is pushed to the list, or the file is skipped.
loopBody(g, symbols, tree) ==
    LET f == g.svgFiles[g.i]
    IN  IF canRead(tree, f) /\ ~optimize(tree[f]).threw
             /\ svgMatch(optimize(tree[f]).data).matched
        THEN [g EXCEPT !.i = @ + 1,
                       !.symbols = push(symbols, symbol(f, optimize(tree[f]).data))]
        ELSE [g EXCEPT !.i = @ + 1]

\* The h-th call reads and processes its next file.
HandlerFile(h) ==
    /\ h \in DOMAIN handlers
    /\ handlers[h].pc = "loop"
    /\ handlers[h].i <= Len(handlers[h].svgFiles)
    /\ handlers' = [handlers EXCEPT ![h] = loopBody(@, localSymbols(handlers, h), icons)]
    /\ UNCHANGED <<plugin, ws>>
    /\ UNCHANGED <<htmlVars, spriteVars, utilVars>>

\* The h-th call leaves the loop: it returns when it has no symbol, else
\* it creates the directory and awaits writeFile.
HandlerLoopDone(h) ==
    /\ h \in DOMAIN handlers
    /\ handlers[h].pc = "loop"
    /\ handlers[h].i > Len(handlers[h].svgFiles)
    /\ handlers' = [handlers EXCEPT ![h].pc =
                        IF Len(handlers[h].symbols) > 0 THEN "write" ELSE "returned"]
    /\ outDir' = (outDir \/ Len(handlers[h].symbols) > 0)
    /\ UNCHANGED <<icons, iconsDirExists, sprite, gen, console, edits>>
    /\ UNCHANGED <<plugin, ws>>
    /\ UNCHANGED <<htmlVars, utilVars>>

\* The h-th call writes outputPath and returns.
HandlerWrite(h) ==
    /\ h \in DOMAIN handlers
    /\ handlers[h].pc = "write"
    /\ sprite' = <<handlers[h].symbols>>
    /\ handlers' = [handlers EXCEPT ![h].pc = "returned"]
    /\ UNCHANGED <<icons, iconsDirExists, outDir, gen, console, edits>>
    /\ UNCHANGED <<plugin, ws>>
    /\ UNCHANGED <<htmlVars, utilVars>>

\* Mutant: the handler goes on while the call it started still runs.
awaitedEarly(g) == g.pc \in {"scan", "loop", "write", "returned"}

\* await generateSvgSprite(iconsDir, outputPath): the call has returned.
awaited(g) == g.pc = "returned"

\* The promise of the h-th call is settled: handleSpriteChange goes on after
\* its await and sends the notification; configureServer awaits nothing.
HandlerResume(h) ==
    /\ h \in DOMAIN handlers
    /\ awaited(handlers[h])
    /\ handlers' = [handlers EXCEPT ![h].pc = "done"]
    /\ ws' = IF handlers[h].type = "start" THEN ws ELSE Append(ws, Updated(h))
    /\ UNCHANGED plugin
    /\ UNCHANGED <<htmlVars, spriteVars, utilVars>>

HandlerStep(h) ==
    \/ HandlerScan(h)
    \/ HandlerFile(h)
    \/ HandlerLoopDone(h)
    \/ HandlerWrite(h)
    \/ HandlerResume(h)

WatchNext ==
    \/ \E input \in {NoBase} : CreateServeConfig(input)
    \/ ConfigureServer
    \/ \E path \in WatchedIcons, content \in WatchedSources :
          WatchWrite(MaxEvents, path, content)
    \/ \E path \in WatchedIcons : WatchUnlink(MaxEvents, path)
    \/ \E f \in OtherWatched : WatchOther(MaxEvents, f)
    \/ \E h \in 1..(MaxEvents + 1) : HandlerScan(h)
    \/ \E h \in 1..(MaxEvents + 1) : HandlerFile(h)
    \/ \E h \in 1..(MaxEvents + 1) : HandlerLoopDone(h)
    \/ \E h \in 1..(MaxEvents + 1) : HandlerWrite(h)
    \/ \E h \in 1..(MaxEvents + 1) : HandlerResume(h)

FairWatchNext ==
    \/ \E input \in {NoBase} : CreateServeConfig(input)
    \/ ConfigureServer
    \/ \E path \in {IconArrow}, content \in {SrcBoxed, SrcUnreadable} :
          WatchWrite(MaxFairEvents, path, content)
    \/ \E path \in {IconArrow} : WatchUnlink(MaxFairEvents, path)
    \/ \E f \in {IconsRoot \o IconBackup, OldIcon} : WatchOther(MaxFairEvents, f)
    \/ \E h \in 1..(MaxFairEvents + 1) : HandlerScan(h)
    \/ \E h \in 1..(MaxFairEvents + 1) : HandlerFile(h)
    \/ \E h \in 1..(MaxFairEvents + 1) : HandlerLoopDone(h)
    \/ \E h \in 1..(MaxFairEvents + 1) : HandlerWrite(h)
    \/ \E h \in 1..(MaxFairEvents + 1) : HandlerResume(h)

\* The icons root when the dev server starts: at most maxIcons of the
\* watched icons, and no sprite yet.
WatchInit(maxIcons, paths, sources) ==
    /\ SpriteInitWith(maxIcons, {FALSE})
    /\ DOMAIN icons \subseteq paths \cup {IconBackup}
    /\ \A f \in DOMAIN icons : icons[f] \in sources

\* A session of the dev server.
WatchSpec == WatchInit(MaxWatchIcons, WatchedIcons, WatchedSources) /\ [][WatchNext]_vars

\* A session in which every call that was started is run on: Node runs
\* the continuations of settled promises.
FairWatchSpec ==
    /\ WatchInit(MaxFairWatchIcons, {IconArrow}, {SrcBoxed, SrcUnreadable})
    /\ [][FairWatchNext]_vars
    /\ \A h \in 1..(MaxFairEvents + 1) : WF_vars(HandlerStep(h))

(* Concurrent calls over a file system that does not change *)

\* Bound: the number of tokens of the file tree two concurrent calls expand.
MaxConcTotalLen == 2
\* Bound: the number of .svg files below the icons root of concurrent calls.
MaxConcIcons == 1
\* Bound: the number of watcher events that start concurrent calls.
MaxConcEvents == 1

\* A top-level processHtmlImports call as its caller holds it: the promise
\* and what the call's activations hold while they await.
Suspended == [pc |-> pc, page |-> page, stack |-> stack, result |-> result, readLog |-> readLog]

\* A caller that has made no call yet.
NotCalled == [pc |-> "idle", page |-> <<>>, stack |-> <<>>, result |-> <<>>, readLog |-> <<>>]

\* The call that runs awaits (fs.readFile, or a nested call) and Node runs
\* the other caller: its call goes on where it awaited, or it is about to
\* make its call.  The Set objects of both calls are in the one heap.
Switch ==
    /\ pc = "running" \/ (parked # <<>> /\ parked[1].pc = "running")
    /\ parked' = <<Suspended>>
    /\ LET other == IF parked = <<>> THEN NotCalled ELSE parked[1]
       IN  /\ pc' = other.pc
           /\ page' = other.page
           /\ stack' = other.stack
           /\ result' = other.result
           /\ readLog' = other.readLog
    /\ UNCHANGED <<files, sets, legacy, entries>>
    /\ UNCHANGED <<spriteVars, pluginVars>>

\* An icon file is written again with the text it has (a save without a
\* change): the watcher reports a change.
Touch(path) ==
    /\ path \in DOMAIN icons
    /\ WatchWrite(MaxConcEvents, path, icons[path])

\* The dev server is configured with the default options.
Serving ==
    /\ plugin = [command |-> "serve", options |-> DefaultOptions, buildOutputPath |-> <<>>]
    /\ handlers = <<>>
    /\ ws = <<>>

\* Either pages for two callers of processHtmlImports, or icons for a dev
\* server that is configured.
ConcInit ==
    \/ InitWith(MaxConcTotalLen)
    \/ /\ IconTree(MaxConcIcons, {FALSE})
       /\ DOMAIN icons \subseteq WatchedIcons \cup {IconBackup}
       /\ \A f \in DOMAIN icons : icons[f] \in WatchedSources
       /\ HtmlIdle
       /\ Serving
       /\ UtilIdle

ConcNext ==
    \/ \E pageFile \in PageFiles : Call(pageFile)
    \/ AliasCircular
    \/ AliasNotFound
    \/ AliasImport
    \/ RelativeCircular
    \/ RelativeNotFound
    \/ RelativeImport
    \/ Return
    \/ Finish
    \/ Switch
    \/ ConfigureServer
    \/ \E path \in WatchedIcons : Touch(path)
    \/ \E h \in 1..(MaxConcEvents + 1) : HandlerScan(h)
    \/ \E h \in 1..(MaxConcEvents + 1) : HandlerFile(h)
    \/ \E h \in 1..(MaxConcEvents + 1) : HandlerLoopDone(h)
    \/ \E h \in 1..(MaxConcEvents + 1) : HandlerWrite(h)
    \/ \E h \in 1..(MaxConcEvents + 1) : HandlerResume(h)

\* Two callers of processHtmlImports, or the calls of a dev server, on
\* files that do not change.
ConcSpec == ConcInit /\ [][ConcNext]_vars

(* The legacy resolver: processHtmlImports of src/process-html-imports.ts *)

\* Bound: the number of tokens of the file tree both resolvers expand.
MaxLegacyTotalLen == 3

\* Mutant: the "@components/" prefix is not handled.
legacyReplacementRelative(importPath, dir) ==
    LET filePath == relativeFilePath(importPath, dir)
    IN  IF readable(filePath) THEN files[filePath]
        ELSE <<FileNotFoundError(importPath, filePath)>>

\* What the loop body puts in the place of a match: fileContent as it was
\* read, or the errorMessage of the branch whose readFile threw.
legacyReplacement(importPath, dir) ==
    IF aliasBranch(importPath, dir)
    THEN LET filePath == aliasFilePath(importPath, dir)
         IN  IF readable(filePath) THEN files[filePath]
             ELSE <<ComponentNotFoundError(importPath, filePath)>>
    ELSE LET filePath == relativeFilePath(importPath, dir)
         IN  IF readable(filePath) THEN files[filePath]
             ELSE <<FileNotFoundError(importPath, filePath)>>

\* for (let i = matches.length - 1; i >= 0; i--) { ... }: html after the
\* loop has run from index i down.
RECURSIVE legacyLoop(_, _, _, _)
legacyLoop(html, matches, i, dir) ==
    IF ~forLoop(Len(matches), i).cond THEN html
    ELSE legacyLoop(splice(html, matches[i + 1],
                           legacyReplacement(matches[i + 1].path, dir)),
                    matches, forLoop(Len(matches), i).next, dir)

\* processHtmlImports(html, dir) of src/process-html-imports.ts
legacyProcessHtmlImports(html, dir) ==
    legacyLoop(html, matchAll(html), forLoop(Len(matchAll(html)), 0).first, dir)

\* A caller gives the document the core resolver has expanded to the
\* legacy resolver, with the same directory.
LegacyCall ==
    /\ pc = "done"
    /\ legacy = <<>>
    /\ legacy' = <<legacyProcessHtmlImports(files[page], dirname(page))>>
    /\ UNCHANGED <<parked, entries>>
    /\ UNCHANGED <<htmlVars, spriteVars, pluginVars>>

LegacyNext ==
    \/ \E pageFile \in PageFiles : Call(pageFile)
    \/ AliasCircular
    \/ AliasNotFound
    \/ AliasImport
    \/ RelativeCircular
    \/ RelativeNotFound
    \/ RelativeImport
    \/ Return
    \/ Finish
    \/ LegacyCall

\* One document expanded by both resolvers.
LegacySpec == InitWith(MaxLegacyTotalLen) /\ [][LegacyNext]_vars

(* getInputEntries of utils/file-scanner.ts *)

\* Bound: the number of .html files below pagesDir.
MaxPages == 4

\* Page files below pagesDir, as scanDirectory returns them (relative).
PageIndex == <<"index.html">>
PageAbout == <<"about.html">>
PageMain == <<"main.html">>
PageBlogIndex == <<"blog", "index.html">>
\* A page in a directory whose name ends with ".html", and a page whose
\* name has the extension twice.
PageInHtmlDir == <<"x.html", "a.html">>
PageDoubleExt == <<"x", "a.html.html">>
PagePool == {PageIndex, PageAbout, PageMain, PageBlogIndex, PageInHtmlDir, PageDoubleExt}

\* A file below pagesDir that is no page.
PageNotes == <<"notes.md">>

\* Names whose spelling ends with ".html" (the glob **/*.html).
NamesEndingInHtml == {"index.html", "about.html", "main.html", "a.html", "a.html.html"}

\* Names whose spelling holds ".html", with the first ".html" removed.
NamesIncludingHtml == NamesEndingInHtml \cup {"x.html"}
withoutHtml(name) ==
    CASE name = "index.html" -> "index"
      [] name = "about.html" -> "about"
      [] name = "main.html" -> "main"
      [] name = "a.html" -> "a"
      [] name = "a.html.html" -> "a.html"
      [] name = "x.html" -> "x"
      [] OTHER -> name

\* scanDirectory(pagesDir, [".html"]): the files below pagesDir that the
\* pattern **/*.html matches, in an order fast-glob does not promise.
scanPages(tree) ==
    Orders({f \in DOMAIN tree : f[Len(f)] \in NamesEndingInHtml /\ f[1] # "node_modules"})

\* file.replace(".html", ""): the first ".html" of the path is removed.
RECURSIVE replaceHtml(_)
replaceHtml(f) ==
    IF f = <<>> THEN <<>>
    ELSE IF Head(f) \in NamesIncludingHtml THEN <<withoutHtml(Head(f))>> \o Tail(f)
    ELSE <<Head(f)>> \o replaceHtml(Tail(f))

\* The arguments: pagesDir and stylesEntry with their defaults, or given.
DefaultPagesDir == <<"src", "pages">>
StylesEntries == {<<"src", "styles", "main.scss">>, <<"src", "styles", "app.scss">>}

\* for (const file of pageFiles) { entries[name] = `${pagesDir}/${file}` },
\* from the k-th file on.
RECURSIVE pagesLoop(_, _, _, _)
pagesLoop(record, pageFiles, k, pagesDir) ==
    IF k > Len(pageFiles) THEN record
    ELSE pagesLoop((replaceHtml(pageFiles[k]) :> (pagesDir \o pageFiles[k])) @@ record,
                   pageFiles, k + 1, pagesDir)

\* getInputEntries(pagesDir, jsDir, stylesEntry): entries.main = stylesEntry,
\* then the loop over the pages; entries is returned.
getInputEntries(pageFiles, pagesDir, stylesEntry) ==
    pagesLoop((<<"main">> :> stylesEntry), pageFiles, 1, pagesDir)

\* The pages of a project: at most MaxPages page files and a file that
\* is no page, below pagesDir; nothing of the toolkit has run.
EntriesInit ==
    /\ \E S \in SUBSET PagePool :
         /\ Cardinality(S) <= MaxPages
         /\ files = [f \in {DefaultPagesDir \o r : r \in S \cup {PageNotes}} |-> <<>>]
    /\ pc = "idle"
    /\ page = <<>>
    /\ stack = <<>>
    /\ sets = <<>>
    /\ result = <<>>
    /\ readLog = <<>>
    /\ SpriteIdle
    /\ PluginIdle
    /\ UtilIdle

\* The files below pagesDir, by their path relative to it.
PagesTree ==
    [r \in {SubSeq(f, Len(DefaultPagesDir) + 1, Len(f)) : f \in DOMAIN files} |->
        files[DefaultPagesDir \o r]]

\* The config calls getInputEntries(pagesDir, jsEntry, stylesEntry).
GetInputEntries(stylesEntry) ==
    /\ entries = <<>>
    /\ \E pageFiles \in scanPages(PagesTree) :
         entries' = <<[stylesEntry |-> stylesEntry, pageFiles |-> pageFiles,
                       entries |-> getInputEntries(pageFiles, DefaultPagesDir, stylesEntry)]>>
    /\ UNCHANGED <<parked, legacy>>
    /\ UNCHANGED <<htmlVars, spriteVars, pluginVars>>

EntriesNext == \E stylesEntry \in StylesEntries : GetInputEntries(stylesEntry)

\* The entries of a build.
EntriesSpec == EntriesInit /\ [][EntriesNext]_vars

----------------------------------------------------------------------------
(* Properties *)

Done == pc = "done"

\* The file a directive with this path names when met in directory dir.
TargetOf(importPath, dir) ==
    IF aliasBranch(importPath, dir) THEN aliasFilePath(importPath, dir)
    ELSE relativeFilePath(importPath, dir)

\* The files whose expansion is in progress below the top-level call
\* (the nested calls), outermost first.
Chain == [k \in 1..(Len(stack) - 1) |-> stack[k + 1].file]

HasKind(html, kind) == \E k \in 1..Len(html) : html[k].kind = kind

\* The innermost call has processed all its matches and is about to return.
Finished == pc = "running" /\ ~forLoop(Len(Top.matches), Top.i).cond

\* What the innermost call was given: the content of its file, and its
\* ancestry set.
Given == files[Top.file]
Ancestry == sets[Top.processedFiles]

\* The expansion of a text as the specification describes it, built left to
\* right: text stays, a directive becomes its diagnostic or the expansion
\* of its target under the ancestry extended by the target.
RECURSIVE Expansion(_, _, _)
Replacement(importPath, dir, ancestry) ==
    LET filePath == TargetOf(importPath, dir)
    IN  IF filePath \in ancestry
        THEN <<CircularError(importPath, filePath)>>
        ELSE IF filePath \notin DOMAIN files
        THEN <<IF aliasBranch(importPath, dir)
               THEN ComponentNotFoundError(importPath, filePath)
               ELSE FileNotFoundError(importPath, filePath)>>
        ELSE Expansion(files[filePath], dirname(filePath),
                       ancestry \cup {filePath})

Expansion(html, dir, ancestry) ==
    IF html = <<>> THEN <<>>
    ELSE (IF IsImport(Head(html))
          THEN Replacement(Head(html).raw, dir, ancestry)
          ELSE <<Head(html)>>) \o Expansion(Tail(html), dir, ancestry)

\* The directive at position p of a text met in dir under ancestry is
\* imported (its file is read and expanded) / ends in a diagnostic.
Imported(html, p, dir, ancestry) ==
    /\ IsImport(html[p])
    /\ TargetOf(html[p].raw, dir) \notin ancestry
    /\ TargetOf(html[p].raw, dir) \in DOMAIN files

Fails(html, p, dir, ancestry) ==
    IsImport(html[p]) /\ ~Imported(html, p, dir, ancestry)

Without(html, p) == SubSeq(html, 1, p - 1) \o SubSeq(html, p + 1, Len(html))

ChainFiles == {Chain[k] : k \in 1..Len(Chain)}

IsPrefix(a, b) == Len(a) <= Len(b) /\ SubSeq(b, 1, Len(a)) = a

DiagnosticKinds == {"circular", "missingComponent", "missingFile"}

\* a holds exactly one directive and it names b; b holds exactly one and it names a.
MutualImport(a, b) ==
    /\ a # b
    /\ Len(matchAll(files[a])) = 1
    /\ Len(matchAll(files[b])) = 1
    /\ TargetOf(matchAll(files[a])[1].path, dirname(a)) = b
    /\ TargetOf(matchAll(files[b])[1].path, dirname(b)) = a

\* C1: when the page A and a file B import each other (one directive each),
\* the result of expanding A is A's content with its directive replaced by
\* B's content, in which the directive importing A is replaced by a
\* circular-import diagnostic naming A; A is not inlined a second time.
C1_MutualImportInlinedOnce ==
    \A b \in Files :
        (Done /\ MutualImport(page, b)) =>
            LET ma == matchAll(files[page])[1]
                mb == matchAll(files[b])[1]
            IN  result = splice(files[page], ma,
                            splice(files[b], mb, <<CircularError(mb.path, page)>>))

\* C2: along a chain of nested expansions no file occurs twice and the
\* number of nested expansions never exceeds the number of files, and every
\* call that was started returns.
C2_Terminates ==
    /\ [](/\ \A j, k \in 1..Len(Chain) : j # k => Chain[j] # Chain[k]
          /\ Len(Chain) <= Cardinality(DOMAIN files))
    /\ (pc = "running") ~> Done

\* A call over files that import each other in a cycle has returned.
C2_Witness == Done /\ HasKind(result, "circular")

\* C3: when every directive of a document is imported successfully, the
\* text the call returns is the document read left to right with each
\* directive replaced by the expansion of its own target and every other
\* token kept in place.
C3_OrderPreserved ==
    (Finished /\ \A p \in 1..Len(Given) :
                    IsImport(Given[p]) => Imported(Given, p, Top.dir, Ancestry))
        => Top.html = Expansion(Given, Top.dir, Ancestry)

\* A call with two directives, both imported, whose replacements are not
\* of the directives' own length, is about to return.
C3_Witness ==
    /\ Finished
    /\ Len(Top.matches) >= 2
    /\ \A p \in 1..Len(Given) :
          IsImport(Given[p]) => Imported(Given, p, Top.dir, Ancestry)
    /\ Len(Top.html) # Len(Given)

\* C4: no step leaves the call by an exception, and when a directive's
\* target cannot be read the text the call returns holds, in place of
\* exactly that directive, a missing-file diagnostic with the directive's
\* path and the absolute path that was tried.
C4_MissingFileDiagnostic ==
    /\ pc \in {"idle", "running", "done"}
    /\ Finished =>
         \A p \in 1..Len(Given) :
            (/\ IsImport(Given[p])
             /\ TargetOf(Given[p].raw, Top.dir) \notin Ancestry
             /\ TargetOf(Given[p].raw, Top.dir) \notin DOMAIN files) =>
                LET pre == Expansion(SubSeq(Given, 1, p - 1), Top.dir, Ancestry)
                    post == Expansion(SubSeq(Given, p + 1, Len(Given)), Top.dir, Ancestry)
                    d == Top.html[Len(pre) + 1]
                IN  /\ Len(Top.html) = Len(pre) + 1 + Len(post)
                    /\ SubSeq(Top.html, 1, Len(pre)) = pre
                    /\ SubSeq(Top.html, Len(pre) + 2, Len(Top.html)) = post
                    /\ d.kind \in {"missingComponent", "missingFile"}
                    /\ d.raw = Given[p].raw
                    /\ d.file = TargetOf(Given[p].raw, Top.dir)

\* A call has returned a text with a missing-file diagnostic of each branch.
C4_Witness ==
    Done /\ HasKind(result, "missingFile") /\ HasKind(result, "missingComponent")

\* C5: a directive that ends in a diagnostic leaves the other directives of
\* its document alone: the returned text without that diagnostic is the
\* expansion of the document without that directive.
C5_SiblingsUnaffected ==
    Finished =>
        \A p \in 1..Len(Given) :
            Fails(Given, p, Top.dir, Ancestry) =>
                LET pre == Expansion(SubSeq(Given, 1, p - 1), Top.dir, Ancestry)
                IN  /\ Len(Top.html) > Len(pre)
                    /\ Top.html[Len(pre) + 1].kind \in DiagnosticKinds
                    /\ Without(Top.html, Len(pre) + 1)
                          = Expansion(Without(Given, p), Top.dir, Ancestry)

\* A call whose document holds a failing directive and, before it, one
\* that is imported is about to return.
C5_Witness ==
    /\ Finished
    /\ \E p, q \in 1..Len(Given) :
          /\ q < p
          /\ Fails(Given, p, Top.dir, Ancestry)
          /\ Imported(Given, q, Top.dir, Ancestry)

\* C6: a circular-import diagnostic is due exactly for a directive whose
\* target is a file being expanded on the chain of nested calls down to it,
\* and a file imported by two directives of one document, neither nested
\* in the other, is expanded in full at both places.
C6_SiblingsNotPoisoned ==
    /\ AtMatch =>
         ((ENABLED (AliasCircular \/ RelativeCircular))
            <=> TargetOf(match.path, Top.dir) \in ChainFiles)
    /\ Finished =>
         \A p, q \in 1..Len(Given) :
            (/\ p < q
             /\ IsImport(Given[p]) /\ IsImport(Given[q])
             /\ TargetOf(Given[p].raw, Top.dir) = TargetOf(Given[q].raw, Top.dir)
             /\ TargetOf(Given[p].raw, Top.dir) \in DOMAIN files \ ChainFiles) =>
                LET f == TargetOf(Given[p].raw, Top.dir)
                    x == Expansion(files[f], dirname(f), ChainFiles \cup {f})
                    pre == Expansion(SubSeq(Given, 1, p - 1), Top.dir, ChainFiles)
                    mid == Expansion(SubSeq(Given, p + 1, q - 1), Top.dir, ChainFiles)
                    post == Expansion(SubSeq(Given, q + 1, Len(Given)), Top.dir, ChainFiles)
                IN  Top.html = pre \o x \o mid \o x \o post

\* A call whose document imports the same existing file twice is about to
\* return, both reads done.
C6_Witness ==
    /\ Finished
    /\ \E p, q \in 1..Len(Given) :
          /\ p < q
          /\ Imported(Given, p, Top.dir, Ancestry)
          /\ Imported(Given, q, Top.dir, Ancestry)
          /\ TargetOf(Given[p].raw, Top.dir) = TargetOf(Given[q].raw, Top.dir)
          /\ Cardinality({k \in 1..Len(readLog) :
                            readLog[k] = TargetOf(Given[p].raw, Top.dir)}) >= 2

\* C7: an "@components/" directive met in a document below the project's
\* source root is looked up at <source root>/components/<rest>, whatever
\* the depth of the document's directory.
C7_AliasSameTarget ==
    [][(/\ AtMatch
        /\ startsWithComponents(match.path)
        /\ IsPrefix(SrcRoot, Top.dir)
        /\ readLog' # readLog)
          => readLog'[Len(readLog')] = ComponentsDir \o Tail(match.path)]_vars

\* C8: every nested call runs in the directory of the file it expands, a
\* returned text holds no directive any more, and the top-level result is
\* the expansion in which each imported file's directives are resolved
\* against that file's own directory.
C8_NestedExpansion ==
    /\ \A k \in 2..Len(stack) : stack[k].dir = dirname(stack[k].file)
    /\ Finished => ~HasKind(Top.html, "import")
    /\ Done => result = Expansion(files[page], dirname(page), {})

\* The page in pages/ has been expanded and holds text of the file that
\* only the component's relative directive reaches.
C8_Witness ==
    /\ Done
    /\ page = FileA
    /\ \E k \in 1..Len(result) : result[k].kind = "text" /\ result[k].file = FileC

\* C9: at a directive whose resolved path is in the ancestry set, the step
\* taken reads no file, starts no nested call, replaces the directive by
\* the circular-import diagnostic naming that path and moves on to the
\* next directive of the same call.
C9_CircularHandled ==
    [][(AtMatch /\ TargetOf(match.path, Top.dir) \in Ancestry) =>
          /\ readLog' = readLog
          /\ sets' = sets
          /\ pc' = "running"
          /\ Len(stack') = Len(stack)
          /\ SubSeq(stack', 1, Len(stack) - 1) = SubSeq(stack, 1, Len(stack) - 1)
          /\ stack'[Len(stack)].html =
                splice(Top.html, match,
                       <<CircularError(match.path, TargetOf(match.path, Top.dir))>>)
          /\ stack'[Len(stack)].i = Top.i - 1
          /\ stack'[Len(stack)].matches = Top.matches]_vars

\* A result holds a circular-import diagnostic of the alias branch and one
\* of the relative branch.
C9_Witness ==
    /\ Done
    /\ \E k \in 1..Len(result) :
          result[k].kind = "circular" /\ startsWithComponents(result[k].raw)
    /\ \E k \in 1..Len(result) :
          result[k].kind = "circular" /\ ~startsWithComponents(result[k].raw)

\* C10: the set of every call is the set of the files of the nested calls
\* down to it (so a caller's set never changes); a nested call's file was
\* not in its caller's set, its own set is a different object holding the
\* caller's set plus its file; no file is twice on the chain.
C10_AncestryInvariant ==
    /\ \A k \in 1..Len(stack) :
          sets[stack[k].processedFiles] = {stack[j].file : j \in 2..k}
    /\ \A k \in 2..Len(stack) :
          /\ stack[k].file \notin sets[stack[k - 1].processedFiles]
          /\ sets[stack[k].processedFiles]
                = sets[stack[k - 1].processedFiles] \cup {stack[k].file}
          /\ stack[k].processedFiles # stack[k - 1].processedFiles
    /\ \A j, k \in 2..Len(stack) : j # k => stack[j].file # stack[k].file

\* A caller goes on with its loop after a nested call, which itself had
\* made a nested call, has returned.
C10_Witness ==
    /\ AtMatch
    /\ Len(stack) = 1
    /\ Len(sets) >= 3

\* The text holds no comment of the directive's form.
NoDirective(html) == \A k \in 1..Len(html) : html[k].kind # "import"

\* C11: a call on a document without import directives reads no file, starts
\* no nested call and returns the document as it was given.
C11_ZeroDirectives ==
    (pc \in {"running", "done"} /\ NoDirective(files[page])) =>
        /\ readLog = <<>>
        /\ Len(stack) <= 1
        /\ Len(sets) = 1
        /\ Done => result = files[page]

\* A call on a non-empty document without directives has returned.
C11_Witness == Done /\ NoDirective(files[page]) /\ files[page] # <<>>

\* A comment of the directive's form whose path holds a character outside
\* the allowed class.
BadComment(t) == t.kind = "import" /\ ~allowedPath(t.raw)

\* C12: a directive-like comment with a character outside the allowed class
\* is still in the returned text, at its place and as it was written; the
\* rest of the text is the expansion of the document without it; no
\* diagnostic names its path and no file was read for it.
C12_BadCharUntouched ==
    /\ \A k \in 1..Len(readLog) : allowedPath(readLog[k])
    /\ Finished =>
         /\ \A k \in 1..Len(Top.html) :
               Top.html[k].kind \in DiagnosticKinds => allowedPath(Top.html[k].raw)
         /\ \A p \in 1..Len(Given) :
               BadComment(Given[p]) =>
                 LET pre == Expansion(SubSeq(Given, 1, p - 1), Top.dir, Ancestry)
                 IN  /\ Len(Top.html) > Len(pre)
                     /\ Top.html[Len(pre) + 1] = Given[p]
                     /\ Without(Top.html, Len(pre) + 1)
                           = Expansion(Without(Given, p), Top.dir, Ancestry)

\* A call has returned a text that holds the unrecognized comment it was
\* given after the text of a file that a recognized directive imported.
C12_Witness ==
    /\ Done
    /\ \E p, q \in 1..Len(files[page]) :
          /\ q < p
          /\ BadComment(files[page][p])
          /\ Imported(files[page], q, dirname(page), {})
    /\ BadComment(result[Len(result)])
    /\ \E k \in 1..Len(result) : result[k].kind = "text" /\ result[k].file # page

\* No directory on the way from the root down to dir is named "src".
NoSrcAncestor(dir) == \A i \in 1..Len(dir) : dir[i] # "src"

----------------------------------------------------------------------------
(* Properties of the sprite compiler *)

IsSvgFile(f) == f \in SvgPaths

\* Reading or optimizing the icon file fails.
Throws(f) ==
    \/ f \notin DOMAIN icons
    \/ ~icons[f].readable
    \/ ~icons[f].wellFormed

\* The icon file is read and optimized and its root element has content.
Succeeds(f) == ~Throws(f) /\ icons[f].children # <<>>

\* The symbols of the files of a list that succeed, in the list's order.
ExpectedSymbols(fs) ==
    LET ok == SelectSeq(fs, Succeeds)
    IN  [j \in 1..Len(ok) |-> symbol(ok[j], optimize(icons[ok[j]]).data)]

\* The warnings among what the call logged.
Warnings == SelectSeq(console, LAMBDA e : e.level = "warn")

\* The call has returned after it went through the files it enumerated.
Returned == gen.pc = "returned" /\ gen.svgFiles # <<>>

\* The symbols of the file at outputPath.
SymbolsOnDisk == IF sprite = <<>> THEN <<>> ELSE sprite[1]

\* The viewBox the root element of an icon declares.
RootViewBox(src) ==
    LET hits == SelectSeq(src.attrs, LAMBDA a : a[1] = "viewBox")
    IN  IF hits = <<>> THEN <<>> ELSE <<hits[1][2]>>

NoVectorFiles == ~iconsDirExists \/ \A f \in DOMAIN icons : ~IsSvgFile(f)

\* C15: with no vector file below the icons root, no step of the call
\* writes outputPath or creates its directory, and the call returns right
\* after the enumeration.
C15_EmptyInputNoOp ==
    [][NoVectorFiles =>
          /\ sprite' = sprite
          /\ outDir' = outDir
          /\ gen'.pc \in {"scan", "returned"}]_vars

\* A call on an existing icons root without vector files has returned, and
\* there is neither an output file nor its directory.
C15_Witness ==
    /\ gen.pc = "returned"
    /\ iconsDirExists
    /\ DOMAIN icons # {}
    /\ NoVectorFiles
    /\ sprite = <<>>
    /\ ~outDir

\* C16: when a call has returned, the file at outputPath holds exactly the
\* symbols of the icon files that exist now, whatever was added, changed
\* or removed before the call; when no icon is left it holds no symbol.
C16_TotalRegeneration ==
    gen.pc = "returned" =>
        \E order \in scanDirectory(iconsDirExists, icons) :
            SymbolsOnDisk = ExpectedSymbols(order)

\* C17: in a sprite that was written no two symbols have the same id, and
\* the symbol with an id is the one of the file processed last among the
\* files with this base name.
C17_LastWins ==
    (Returned /\ Len(gen.symbols) > 0) =>
        /\ \A j, k \in 1..Len(sprite[1]) :
              j # k => sprite[1][j].id # sprite[1][k].id
        /\ \A j \in 1..Len(sprite[1]) :
              LET same == SelectSeq(gen.svgFiles,
                             LAMBDA f : Succeeds(f) /\ basename(f) = sprite[1][j].id)
                  last == same[Len(same)]
              IN  sprite[1][j] = symbol(last, optimize(icons[last]).data)

\* C18: the symbol pushed for an icon carries the viewBox that the icon's
\* root element declares, with the same value, and none when the root
\* element declares none.
C18_ViewBoxPropagation ==
    [][(AtFile /\ Len(gen'.symbols) = Len(gen.symbols) + 1) =>
          gen'.symbols[Len(gen'.symbols)].viewBox = RootViewBox(icons[file])]_vars

\* C19: the symbols collected so far, and the symbols of the sprite that is
\* written, are those of the successful files in the order of the
\* enumeration; the files that are skipped leave no trace in this order.
C19_SymbolOrder ==
    /\ gen.pc \in {"loop", "write", "returned"} =>
          gen.symbols = ExpectedSymbols(SubSeq(gen.svgFiles, 1, gen.i - 1))
    /\ (Returned /\ Len(gen.symbols) > 0) =>
          sprite = <<ExpectedSymbols(gen.svgFiles)>>

\* A sprite of two symbols with different ids has been written by a call
\* whose second file, of three, was skipped.
C19_Witness ==
    /\ Returned
    /\ Len(gen.svgFiles) = 3
    /\ Succeeds(gen.svgFiles[1])
    /\ ~Succeeds(gen.svgFiles[2])
    /\ Succeeds(gen.svgFiles[3])
    /\ sprite = <<gen.symbols>>
    /\ Len(gen.symbols) = 2
    /\ gen.symbols[1].id # gen.symbols[2].id

\* C20: when the call has returned, a warning has been logged for every
\* enumerated file that has no symbol in the sprite.
C20_OmittedIconsWarned ==
    Returned =>
        \A j \in 1..Len(gen.svgFiles) :
            ~Succeeds(gen.svgFiles[j]) =>
                \E w \in 1..Len(Warnings) : Warnings[w] = Warn(gen.svgFiles[j])

\* C21: when the call has returned after it enumerated at least one icon
\* file, the directory of outputPath exists and the file at outputPath holds
\* exactly the symbols the call built, also when it built none.
C21_WriteCondition ==
    Returned => /\ outDir
                /\ sprite = <<gen.symbols>>

\* The fragment the README gives for an icon file: the name of its
\* subdirectory, a hyphen, its base name (src/icons/ui/arrow.svg is
\* "/sprite.svg#ui-arrow").
DocumentedId(f) ==
    CASE f = IconUiArrow -> "ui-arrow"
      [] f = IconUiStar -> "ui-star"
      [] OTHER -> basename(f)

\* C22: when a call has written the sprite and the icon file ui/arrow.svg
\* was among the files it built a symbol for, the sprite holds a symbol
\* whose id is "ui-arrow".
C22_DocumentedAddressing ==
    (/\ Returned
     /\ Len(gen.symbols) > 0
     /\ \E j \in 1..Len(gen.svgFiles) : gen.svgFiles[j] = IconUiArrow
     /\ Succeeds(IconUiArrow)) =>
        \E j \in 1..Len(sprite[1]) : sprite[1][j].id = DocumentedId(IconUiArrow)

\* C23: when the build hook's call has written the sprite, the path it was
\* called with is dist/<B>images/sprite.svg for the normalized base B that
\* createStaticKitConfig configured; with the default base it is
\* dist/public/images/sprite.svg.
C23_BuildOutputLocation ==
    (/\ plugin.command = "build"
     /\ gen.pc = "returned"
     /\ Len(gen.symbols) > 0) =>
        /\ sprite = <<gen.symbols>>
        /\ plugin.buildOutputPath =
              <<"dist">> \o plugin.options.publicPath \o <<"images", "sprite.svg">>
        /\ plugin.options.publicPath = <<"public">> =>
              plugin.buildOutputPath = <<"dist", "public", "images", "sprite.svg">>

(* Properties of the dev plugin *)

\* The watcher events so far: the calls but the one of configureServer.
Events == {h \in 1..Len(handlers) : handlers[h].type # "start"}

\* The file of an event lies below the icons root.
UnderIconsRoot(f) == Len(f) > Len(IconsRoot) /\ IsPrefix(IconsRoot, f)

\* The notifications sent for the h-th call.
Notifications(h) == SelectSeq(ws, LAMBDA m : m = Updated(h))

\* Every notification is one of an event, no event has two, and the one of
\* an event is sent when the call of this event has returned.
NotifiedAfterCompile ==
    /\ [](\A m \in 1..Len(ws) : ws[m].handler \in Events)
    /\ [](\A h \in Events : Len(Notifications(h)) <= 1)
    /\ [][\A h \in Events :
            Len(Notifications(h))' > Len(Notifications(h)) =>
                handlers[h].pc = "returned"]_vars

AllFinished ==
    /\ handlers # <<>>
    /\ \A h \in 1..Len(handlers) : handlers[h].pc \in {"done", "skipped"}

\* The recompilations that watcher events started, oldest first.
Compilations == {h \in Events : handlers[h].pc # "skipped"}

\* The most recently started one.
Latest == CHOOSE h \in Compilations : \A k \in Compilations : k <= h

\* C25: when two or more recompilations were started by successive events
\* and every call has finished, the file at outputPath is what the most
\* recently started recompilation built (it built at least one symbol), and
\* these are the symbols of the icon files that exist now.
C25_Supersession ==
    (/\ AllFinished
     /\ Cardinality(Compilations) >= 2
     /\ Len(handlers[Latest].symbols) > 0) =>
        /\ sprite = <<handlers[Latest].symbols>>
        /\ \E order \in scanDirectory(iconsDirExists, icons) :
              SymbolsOnDisk = ExpectedSymbols(order)

\* C30: the handler of an event whose path does not end in ".svg" or does
\* not lie below the icons root has skipped: it started no recompilation,
\* so it writes nothing to outputPath, and no notification is sent for it.
C30_WatchFilter ==
    \A h \in Events :
        (~endsWithSvg(handlers[h].file) \/ ~UnderIconsRoot(handlers[h].file)) =>
            /\ handlers[h].pc = "skipped"
            /\ Len(Notifications(h)) = 0

(* Properties of concurrent calls *)

\* What a call of generateSvgSprite that runs alone has collected when it
\* has gone through the first n files of its enumeration.
AloneSymbols(g, n) == ExpectedSymbols(SubSeq(g.svgFiles, 1, n))

\* C26: on files that do not change, each of two interleaved top-level
\* processHtmlImports calls returns the expansion of its page that the call
\* gives when it runs alone, and each of the interleaved generateSvgSprite
\* calls enumerates the icon files, collects the symbols it collects when
\* it runs alone, and writes exactly them.
C26_ConcurrentIndependence ==
    /\ pc = "done" => result = Expansion(files[page], dirname(page), {})
    /\ (parked # <<>> /\ parked[1].pc = "done") =>
          parked[1].result = Expansion(files[parked[1].page], dirname(parked[1].page), {})
    /\ \A h \in 1..Len(handlers) :
          LET g == handlers[h]
          IN  /\ g.pc \in {"loop", "write", "returned", "done"} =>
                    /\ g.svgFiles \in scanDirectory(iconsDirExists, icons)
                    /\ g.symbols = AloneSymbols(g, g.i - 1)
              /\ (g.pc \in {"write", "returned", "done"} /\ g.svgFiles # <<>>) =>
                    g.symbols = AloneSymbols(g, Len(g.svgFiles))
    /\ sprite # <<>> =>
          \E h \in 1..Len(handlers) :
              /\ handlers[h].pc \in {"returned", "done"}
              /\ sprite = <<handlers[h].symbols>>

\* Two top-level calls are in progress at once, each inside a nested call
\* for a file it imported, and each has its own ancestry set in the heap.
C26_Witness ==
    /\ pc = "running"
    /\ Len(stack) >= 2
    /\ parked # <<>>
    /\ parked[1].pc = "running"
    /\ Len(parked[1].stack) >= 2
    /\ Top.processedFiles # parked[1].stack[Len(parked[1].stack)].processedFiles

(* Properties of the callers' use of the resolver *)

\* The circular-import diagnostics in a text.
Circulars(html) == SelectSeq(html, LAMBDA t : t.kind = "circular")

\* The nested calls that expand the caller's own document.
PageBelow == {k \in 2..Len(stack) : stack[k].file = page}

\* C27: the top-level call runs with the empty ancestry; a directive that
\* names the caller's document, met while no nested call expands it, is
\* imported: the document is read and a nested call expands it, at most
\* once on a chain; and a step that writes a circular-import diagnostic
\* names a file that a nested call of the chain expands.
C27_TopLevelNotInAncestry ==
    /\ [](pc = "running" => /\ sets[stack[1].processedFiles] = {}
                            /\ stack[1].file = page
                            /\ Cardinality(PageBelow) <= 1)
    /\ [][(AtMatch /\ TargetOf(match.path, Top.dir) = page /\ PageBelow = {}) =>
             /\ readLog' = Append(readLog, page)
             /\ Len(stack') = Len(stack) + 1
             /\ stack'[Len(stack')].file = page
             /\ stack'[Len(stack')].html = files[page]
             /\ Circulars(stack'[Len(stack)].html) = Circulars(Top.html)]_vars
    /\ [][(/\ AtMatch
           /\ Len(stack') = Len(stack)
           /\ Len(Circulars(stack'[Len(stack)].html)) > Len(Circulars(Top.html))) =>
             /\ TargetOf(match.path, Top.dir) \in ChainFiles
             /\ Circulars(stack'[Len(stack)].html)[1].file = TargetOf(match.path, Top.dir)]_vars

\* The page imports a component that imports the page: the page has been
\* read and expanded once more inside the call, and the diagnostic of the
\* result names the component, the first file met twice below the
\* top-level call.
C27_Witness ==
    /\ Done
    /\ page = FileA
    /\ \E k \in 1..Len(readLog) : readLog[k] = FileA
    /\ Circulars(result) # <<>>
    /\ \A k \in 1..Len(Circulars(result)) : Circulars(result)[k].file = FileB

(* Properties of the legacy resolver *)

\* The files the directives of the caller's document name and that exist:
\* the files both resolvers read and inline.
ImportedByPage ==
    {f \in DOMAIN files :
        \E k \in 1..Len(matchAll(files[page])) :
            TargetOf(matchAll(files[page])[k].path, dirname(page)) = f}

\* C28: for a document expanded by both resolvers, the two texts are the
\* same if no file the document imports holds a directive; if one does, the
\* texts differ, and the legacy text holds a directive while the core text
\* holds none.
C28_LegacyAgreement ==
    (pc = "done" /\ legacy # <<>>) =>
        /\ (\A f \in ImportedByPage : matchAll(files[f]) = <<>>) => legacy[1] = result
        /\ legacy[1] # result =>
              /\ \E f \in ImportedByPage : matchAll(files[f]) # <<>>
              /\ matchAll(legacy[1]) # <<>>
              /\ matchAll(result) = <<>>

\* Both resolvers have expanded a page with an alias import and a missing
\* relative import, whose component holds no directive, to the same text;
\* and the text holds the component's text and a diagnostic.
C28_Witness ==
    /\ pc = "done"
    /\ legacy = <<result>>
    /\ page = FileA
    /\ FileB \in ImportedByPage
    /\ files[FileB] # <<>>
    /\ HasKind(result, "text")
    /\ HasKind(result, "missingFile")

(* Properties of getInputEntries *)

\* C29: the record getInputEntries returns maps "main" to stylesEntry, and
\* it holds every page file under a key of its own: the key of a page is
\* mapped to this page's path below pagesDir.
C29_MainStylesheetIncluded ==
    entries # <<>> =>
        LET e == entries[1]
        IN  /\ <<"main">> \in DOMAIN e.entries
            /\ e.entries[<<"main">>] = e.stylesEntry
            /\ \A k \in 1..Len(e.pageFiles) :
                  \E key \in DOMAIN e.entries :
                      e.entries[key] = DefaultPagesDir \o e.pageFiles[k]

====
